---- MODULE Spec2Model ----
(***************************************************************************)
(* Model of the browser audiobook maker (docs/script.js): the sentence     *)
(* chunker chunkText and the conversion pipeline handleConvert ->          *)
(* captureSpeech -> textToMP3 -> fetchMP3.                                 *)
(*                                                                         *)
(* A JavaScript string is modelled as a sequence of one-character strings. *)
(***************************************************************************)
EXTENDS Integers, Sequences, FiniteSets, TLC

\* ------------------------------------------------------------------ bounds
MaxLen == 5      \* longest input text explored for chunkText
MaxMax == 4      \* largest explicit max argument explored for chunkText
MaxCalls == 2    \* handler invocations (clicks) explored in one behaviour
SentLen == 101   \* letters in a long sample sentence (three exceed 200 pairwise)
MaxVoices == 3   \* longest voice list the host offers
MaxListens == 3  \* clicks on Listen explored in one behaviour

\* ------------------------------------------------------- characters/strings
NL == "\n"
Punct == {".", "!", "?"}            \* the class [.!?] of the sentence regex
Term == Punct \cup {NL}             \* the class [.!?\n] of the sentence regex
WS == {" ", NL}                     \* characters String.prototype.trim removes
Alphabet == {"a", "b", ".", "?", " ", NL}

RECURSIVE StringsUpTo(_)
StringsUpTo(n) ==
  IF n = 0 THEN {<<>>}
  ELSE LET S == StringsUpTo(n - 1)
       IN S \cup {Append(s, c) : s \in {x \in S : Len(x) = n - 1}, c \in Alphabet}

RECURSIVE Concat(_)
Concat(ss) == IF ss = <<>> THEN <<>> ELSE Head(ss) \o Concat(Tail(ss))

SetMin(S) == CHOOSE x \in S : \A y \in S : x <= y
SetMax(S) == CHOOSE x \in S : \A y \in S : x >= y

\* String.prototype.trim: drop leading and trailing whitespace only.
Trim(s) ==
  LET keep == {j \in 1..Len(s) : s[j] \notin WS}
  IN IF keep = {} THEN <<>> ELSE SubSeq(s, SetMin(keep), SetMax(keep))

\* ------------------------------------------------ text.match(/[^.!?]+[.!?\n]*/g)
\* First index >= p at which a match can start (a character outside [.!?]),
\* Len(t) + 1 when there is none.
MatchStart(t, p) ==
  SetMin({q \in p..Len(t) : t[q] \notin Punct} \cup {Len(t) + 1})

\* End (exclusive) of the greedy run [^.!?]+ that starts at p.
BodyEnd(t, p) ==
  SetMin({q \in p..Len(t) : t[q] \in Punct} \cup {Len(t) + 1})

\* End (exclusive) of the greedy run [.!?\n]* that starts at p.
TermEnd(t, p) ==
  SetMin({q \in p..Len(t) : t[q] \notin Term} \cup {Len(t) + 1})

\* All matches of the global regex from index p on, in order.
RECURSIVE MatchFrom(_, _)
MatchFrom(t, p) ==
  LET s == MatchStart(t, p)
  IN IF s > Len(t) THEN <<>>
     ELSE LET e == TermEnd(t, BodyEnd(t, s))
          IN <<SubSeq(t, s, e - 1)>> \o MatchFrom(t, e)

\* const sentences = text.match(...) || [];
SentencesOf(t) == MatchFrom(t, 1)

\* ------------------------------------------------------------- chunkText
\* The for-loop of chunkText from sentence i on.  cur is `current`, curIdx
\* the indices of the sentences accumulated in it (bookkeeping only), out
\* the chunks pushed so far as records [str, idx].
\* Variant: the test looks at the buffer alone, not at buffer + sentence.
ChunkStepSplitsBufferOnly(cur, sentence, max) == Len(cur) > max

ChunkStepSplits(cur, sentence, max) == Len(cur \o sentence) > max

\* Variant: the buffer is pushed after the loop whatever it holds.
FlushesRestAlways(cur) == TRUE

\* if (current) after the loop: an empty buffer is not pushed.
FlushesRest(cur) == cur # <<>>

RECURSIVE ChunkLoop(_, _, _, _, _, _)
ChunkLoop(sents, i, cur, curIdx, out, max) ==
  IF i > Len(sents)
  THEN IF FlushesRest(cur)
       THEN Append(out, [str |-> Trim(cur), idx |-> curIdx])
       ELSE out
  ELSE IF ChunkStepSplits(cur, sents[i], max)
       THEN ChunkLoop(sents, i + 1, sents[i], <<i>>,
                      Append(out, [str |-> Trim(cur), idx |-> curIdx]), max)
       ELSE ChunkLoop(sents, i + 1, cur \o sents[i], Append(curIdx, i), out, max)

ChunkRecords(text, max) == ChunkLoop(SentencesOf(text), 1, <<>>, <<>>, <<>>, max)

chunkText(text, max) ==
  LET r == ChunkRecords(text, max) IN [k \in 1..Len(r) |-> r[k].str]

\* ------------------------------------------------------------ sample inputs
DefaultMax == 200                   \* chunkText(text, max = 200)

Str1(c) == <<c>>
Letters(k) == [j \in 1..k |-> "a"]
LongSentence == Letters(SentLen) \o <<".">>
ShortText == <<"H", "i", ".">>
TwoText == LongSentence \o <<" ">> \o LongSentence
ThreeText == LongSentence \o <<" ">> \o LongSentence \o <<" ">> \o LongSentence

\* Values the user can have typed into the textarea #textInput.
TextInputs == {<<>>, ShortText, ThreeText}

\* Files the user can have picked in #pdfFile.  pages[p] is the list of
\* item.str of page p; failAt names the pdf.js call that rejects for this
\* file ("none": the document parses).
NoFile == [name |-> <<>>, pages |-> <<>>, failAt |-> "nofile", failPage |-> 0]
GoodPdf == [name |-> <<"d", ".", "p", "d", "f">>,
            pages |-> << <<ShortText>>, <<Str1("a"), <<"b", "?">> >> >>,
            failAt |-> "none", failPage |-> 0]
BadDocPdf == [name |-> <<"e", ".", "P", "D", "F">>, pages |-> <<>>,
              failAt |-> "doc", failPage |-> 0]
BadPagePdf == [GoodPdf EXCEPT !.failAt = "page", !.failPage = 2]
\* A scanned document: one page without any text item.
BlankPdf == [name |-> <<"s", ".", "p", "d", "f">>, pages |-> << <<>> >>,
             failAt |-> "none", failPage |-> 0]
Files == {NoFile, GoodPdf, BadDocPdf, BadPagePdf}
ScanFiles == {NoFile, BlankPdf}

\* Bodies the TTS endpoint can answer with.
Segments == {<<1>>, <<2, 3>>}

\* What the host offers: navigator.mediaDevices, .getDisplayMedia,
\* window.MediaRecorder, window.speechSynthesis.
Host(md, gdm, mr, ss) == [mediaDevices |-> md, getDisplayMedia |-> gdm,
                          MediaRecorder |-> mr, speechSynthesis |-> ss]
FullHost == Host(TRUE, TRUE, TRUE, TRUE)
Envs == {FullHost,
         Host(FALSE, FALSE, TRUE, TRUE),    \* no navigator.mediaDevices
         Host(TRUE, FALSE, TRUE, TRUE),     \* no getDisplayMedia
         Host(TRUE, TRUE, FALSE, TRUE),     \* no MediaRecorder
         Host(TRUE, TRUE, TRUE, FALSE)}     \* no speechSynthesis

\* Language tags (voice.lang) of the voices a host can offer, and the lists
\* speechSynthesis.getVoices() can return.
Langs == {<<"e", "n", "-", "U", "S">>, <<"E", "N", "-", "g", "b">>,
          <<"f", "r">>, <<>>}
RECURSIVE VoiceLists(_)
VoiceLists(n) ==
  IF n = 0 THEN {<<>>}
  ELSE LET S == VoiceLists(n - 1)
       IN S \cup {Append(v, l) : v \in {w \in S : Len(w) = n - 1}, l \in Langs}

\* ------------------------------------------------------------------- state
VARIABLES
  env,              \* host capabilities (fixed for the life of the page)
  textInput,        \* #textInput.value
  pdfFile,          \* #pdfFile.files[0]
  progressText,     \* #progress.textContent (the status line)
  progressBar,      \* #progressBar: max, value, style.display
  terminal,         \* #terminal.textContent, one entry per log() line
  alerts,           \* alert() boxes shown so far
  audio,            \* #audio: src, style.display
  playbackControls, \* #playbackControls.style.display
  downloadLink,     \* #downloadLink: href, download, style.display
  sess,             \* per call slot: position and locals of an async handler call
  calls,            \* number of handler invocations so far
  urls,             \* number of URL.createObjectURL calls so far
  cText, cMax, cChunks, cPc,  \* a direct call chunkText(cText, cMax)
  hostVoices,       \* what speechSynthesis.getVoices() returns (voice.lang each)
  voiceSelect,      \* #voiceSelect: options, selectedIndex (-1: none)
  vPc,              \* position of the voice list life cycle
  currentUtterance, \* the global of that name: 0 is null, else the utterance
  listenControls,   \* #listenControls.style.display
  utterances,       \* the utterances listenToText handed to speechSynthesis
  synthPaused       \* speechSynthesis.paused

domVars == <<textInput, pdfFile, progressText, progressBar, terminal, alerts,
             audio, playbackControls, downloadLink>>
chunkVars == <<cText, cMax, cChunks, cPc>>
voiceVars == <<hostVoices, voiceSelect, vPc>>
listenVars == <<currentUtterance, listenControls, utterances, synthPaused>>
auxVars == <<chunkVars, voiceVars, listenVars>>
vars == <<env, domVars, sess, calls, urls, auxVars>>

\* A line of text shown to the user: template k with its two numbers.
Msg(k, a, b) == [k |-> k, a |-> a, b |-> b]

\* An object URL is modelled by the blob it names; id 0 is "no URL".
NoUrl == [id |-> 0, kind |-> "none", bytes |-> <<>>]

\* Positions at which an async call is suspended on a host promise or event.
AwaitPcs == {"x_buf", "x_doc", "x_page", "x_content",
             "cap_media", "cap_speak", "cap_stop", "fetch", "body"}
\* Positions at which no call exists or the call is over.
RestPcs == {"idle", "done", "aborted"}

IdleSess ==
  [pc |-> "idle", op |-> "none", id |-> 0,
   file |-> NoFile, text |-> <<>>, outputName |-> <<>>,
   xtext |-> <<>>, pageNum |-> 0,
   utter |-> "none", onend |-> FALSE, recorder |-> "none", mimeType |-> "none",
   captured |-> "pending",
   chunks |-> <<>>, buffers |-> <<>>, i |-> 0,
   err |-> "none", fetchLog |-> <<>>,
   before |-> [audio |-> [src |-> NoUrl, display |-> "none"],
               downloadLink |-> [href |-> NoUrl, download |-> <<>>, display |-> "none"],
               playbackControls |-> "none", urls |-> 0]]

\* Bookkeeping, not program state: sess[c].fetchLog lists what happened on
\* the network in call c (a request issued for chunk k, its body seg
\* delivered, or its failure), sess[c].err the exception that ended the
\* call, sess[c].captured what captureSpeech returned, sess[c].before what
\* the page exposed when the call started.
Ev(ev, k, seg) == [ev |-> ev, k |-> k, seg |-> seg]

\* JavaScript runs a task to completion: host events are delivered only
\* when the call is suspended or absent.
Slots == {1, 2}
EventLoopFree == \A c \in Slots : sess[c].pc \in AwaitPcs \cup RestPcs
AllAtRest == \A c \in Slots : sess[c].pc \in RestPcs

Log(t, m) == Append(t, m)

ConvInit ==
  /\ env \in Envs
  /\ textInput = <<>>
  /\ pdfFile = NoFile
  /\ progressText = Msg("", 0, 0)
  /\ progressBar = [max |-> 1, value |-> 0, display |-> "none"]
  /\ terminal = <<>>
  /\ alerts = <<>>
  /\ audio = [src |-> NoUrl, display |-> "none"]
  /\ playbackControls = "none"
  /\ downloadLink = [href |-> NoUrl, download |-> <<>>, display |-> "none"]
  /\ sess = [c \in Slots |-> IdleSess]
  /\ calls = 0
  /\ urls = 0

ChunkIdle == cText = <<>> /\ cMax = 0 /\ cChunks = <<>> /\ cPc = "unused"

NoSelect == [options |-> <<>>, selectedIndex |-> -1]
VoiceIdle == hostVoices = <<>> /\ voiceSelect = NoSelect /\ vPc = "unused"

ListenIdle ==
  /\ currentUtterance = 0 /\ listenControls = "none"
  /\ utterances = <<>> /\ synthPaused = FALSE

Init == ConvInit /\ ChunkIdle /\ VoiceIdle /\ ListenIdle

\* ------------------------------------------------------------ user actions
\* The user edits the textarea or picks a file (between handler calls, while
\* a further call is still to come).
TypeText ==
  /\ AllAtRest /\ calls < MaxCalls
  /\ \E t \in TextInputs : t # textInput /\ textInput' = t
  /\ UNCHANGED <<env, pdfFile, progressText, progressBar, terminal, alerts,
                 audio, playbackControls, downloadLink, sess, calls, urls, auxVars>>

SelectFile ==
  /\ AllAtRest /\ calls < MaxCalls
  /\ \E f \in Files : f # pdfFile /\ pdfFile' = f
  /\ UNCHANGED <<env, textInput, progressText, progressBar, terminal, alerts,
                 audio, playbackControls, downloadLink, sess, calls, urls, auxVars>>

\* ------------------------------------------------------ extractTextFromPDF
\* Variant: strings.join('').
JoinSpaceNone(items) == Concat(items)

\* strings.join(' ')
RECURSIVE JoinSpace(_)
JoinSpace(items) ==
  IF items = <<>> THEN <<>>
  ELSE IF Len(items) = 1 THEN items[1]
  ELSE items[1] \o <<" ">> \o JoinSpace(Tail(items))

\* Variant: the rejection is caught inside extractTextFromPDF, which returns
\* the text gathered so far.
ThrowReturnsPartial(c, kind) ==
  sess' = [sess EXCEPT ![c].pc = "x_ret", ![c].err = kind]

\* A rejected await inside an async function with no try/catch around it:
\* the exception leaves every caller and the handler's promise rejects.
Throw(c, kind) == sess' = [sess EXCEPT ![c].pc = "aborted", ![c].err = kind]

\* await file.arrayBuffer() settles.
XBuf(c) ==
  /\ EventLoopFree /\ sess[c].pc = "x_buf"
  /\ sess' = [sess EXCEPT ![c].pc = "x_doc"]
  /\ UNCHANGED <<env, domVars, calls, urls, auxVars>>

\* await pdfjsLib.getDocument(...).promise settles; on success the page
\* loop is entered with text = '' and pageNum = 1.
XDoc(c) ==
  /\ EventLoopFree /\ sess[c].pc = "x_doc"
  /\ IF sess[c].file.failAt = "doc"
     THEN Throw(c, "extract")
     ELSE sess' = [sess EXCEPT ![c].xtext = <<>>, ![c].pageNum = 1,
                     ![c].pc = IF 1 <= Len(sess[c].file.pages)
                               THEN "x_page" ELSE "x_ret"]
  /\ UNCHANGED <<env, domVars, calls, urls, auxVars>>

\* await pdf.getPage(pageNum) settles.
XPage(c) ==
  /\ EventLoopFree /\ sess[c].pc = "x_page"
  /\ IF sess[c].file.failAt = "page" /\ sess[c].file.failPage = sess[c].pageNum
     THEN Throw(c, "extract")
     ELSE sess' = [sess EXCEPT ![c].pc = "x_content"]
  /\ UNCHANGED <<env, domVars, calls, urls, auxVars>>

\* await page.getTextContent() settles: text += strings.join(' ') + '\n',
\* pageNum++, and the loop condition is tested again.
XContent(c) ==
  /\ EventLoopFree /\ sess[c].pc = "x_content"
  /\ LET strings == sess[c].file.pages[sess[c].pageNum]
         next == sess[c].pageNum + 1
     IN sess' = [sess EXCEPT
                   ![c].xtext = sess[c].xtext \o JoinSpace(strings) \o <<NL>>,
                   ![c].pageNum = next,
                   ![c].pc = IF next <= Len(sess[c].file.pages)
                             THEN "x_page" ELSE "x_ret"]
  /\ UNCHANGED <<env, domVars, calls, urls, auxVars>>

\* ------------------------------------------------------------ handleExtract
\* Click on #extractBtn, up to the first await.
HandleExtract(c) ==
  /\ AllAtRest /\ calls < MaxCalls
  /\ calls' = calls + 1
  /\ IF pdfFile = NoFile
     THEN /\ alerts' = Append(alerts, "Please select a PDF file.")
          /\ sess' = [sess EXCEPT ![c] = [IdleSess EXCEPT !.pc = "done",
                          !.op = "extract", !.id = calls + 1]]
          /\ UNCHANGED terminal
     ELSE /\ terminal' = Log(terminal, Msg("Extracting text from PDF...", 0, 0))
          /\ sess' = [sess EXCEPT ![c] = [IdleSess EXCEPT !.pc = "x_buf",
                          !.op = "extract", !.id = calls + 1, !.file = pdfFile]]
          /\ UNCHANGED alerts
  /\ UNCHANGED <<env, textInput, pdfFile, progressText, progressBar,
                 audio, playbackControls, downloadLink, urls, auxVars>>

\* extractTextFromPDF returned into handleExtract.
HandleExtractDone(c) ==
  /\ sess[c].pc = "x_ret" /\ sess[c].op = "extract"
  /\ textInput' = sess[c].xtext
  /\ terminal' = Log(terminal, Msg("Extraction complete.", 0, 0))
  /\ sess' = [sess EXCEPT ![c].pc = "done"]
  /\ UNCHANGED <<env, pdfFile, progressText, progressBar, alerts,
                 audio, playbackControls, downloadLink, calls, urls, auxVars>>

\* ------------------------------------------------- name.replace(/\.ext$/i, to)
Lower(ch) == CASE ch = "P" -> "p" [] ch = "D" -> "d" [] ch = "F" -> "f"
               [] ch = "M" -> "m" [] OTHER -> ch
LowerStr(n) == [j \in 1..Len(n) |-> Lower(n[j])]
DotPdf == <<".", "p", "d", "f">>
DotMp3 == <<".", "m", "p", "3">>
DotWebm == <<".", "w", "e", "b", "m">>
OutputMp3 == <<"o", "u", "t", "p", "u", "t">> \o DotMp3
ReplaceExt(name, ext, to) ==
  IF Len(name) >= Len(ext)
     /\ LowerStr(SubSeq(name, Len(name) - Len(ext) + 1, Len(name))) = ext
  THEN SubSeq(name, 1, Len(name) - Len(ext)) \o to
  ELSE name

\* ------------------------------------------------------------ handleConvert
\* Lines 161-168: read the inputs, reset the progress bar and the log.
HandleConvert(c) ==
  /\ AllAtRest /\ calls < MaxCalls
  /\ calls' = calls + 1
  /\ sess' = [sess EXCEPT ![c] = [IdleSess EXCEPT !.pc = "hc_file",
                  !.op = "convert", !.id = calls + 1, !.file = pdfFile,
                  !.text = Trim(textInput), !.outputName = OutputMp3,
                  !.before = [audio |-> audio, downloadLink |-> downloadLink,
                              playbackControls |-> playbackControls, urls |-> urls]]]
  /\ progressBar' = [progressBar EXCEPT !.display = "none", !.value = 0]
  /\ terminal' = <<>>
  /\ UNCHANGED <<env, textInput, pdfFile, progressText, alerts,
                 audio, playbackControls, downloadLink, urls, auxVars>>

\* Lines 169-173: with a file, announce the extraction and start it.
HcFile(c) ==
  /\ sess[c].pc = "hc_file"
  /\ IF sess[c].file # NoFile
     THEN /\ progressText' = Msg("Extracting text from PDF...", 0, 0)
          /\ terminal' = Log(terminal, Msg("Extracting text from PDF...", 0, 0))
          /\ sess' = [sess EXCEPT ![c].pc = "x_buf"]
     ELSE /\ sess' = [sess EXCEPT ![c].pc = "hc_text"]
          /\ UNCHANGED <<progressText, terminal>>
  /\ UNCHANGED <<env, textInput, pdfFile, progressBar, alerts,
                 audio, playbackControls, downloadLink, calls, urls, auxVars>>

\* Lines 173-174: text += '\n' + <extracted>; outputName from the file name.
HcJoin(c) ==
  /\ sess[c].pc = "x_ret" /\ sess[c].op = "convert"
  /\ sess' = [sess EXCEPT
                ![c].text = sess[c].text \o <<NL>> \o sess[c].xtext,
                ![c].outputName = ReplaceExt(sess[c].file.name, DotPdf, DotMp3),
                ![c].pc = "hc_text"]
  /\ UNCHANGED <<env, domVars, calls, urls, auxVars>>

\* Lines 176-181: refuse an empty text, else call captureSpeech.
HcText(c) ==
  /\ sess[c].pc = "hc_text"
  /\ IF sess[c].text = <<>>
     THEN /\ alerts' = Append(alerts, "Please upload a PDF or enter some text.")
          /\ sess' = [sess EXCEPT ![c].pc = "done"]
          /\ UNCHANGED terminal
     ELSE /\ terminal' = Log(terminal, Msg("Starting conversion", 0, 0))
          /\ sess' = [sess EXCEPT ![c].pc = "cap_entry"]
          /\ UNCHANGED alerts
  /\ UNCHANGED <<env, textInput, pdfFile, progressText, progressBar,
                 audio, playbackControls, downloadLink, calls, urls, auxVars>>

\* Variant: the test on `captured` is inverted.
HcCapturedFallsBackInverted(captured) == captured

\* Variant: textToMP3 is called whatever captureSpeech returned.
HcCapturedFallsBackAlways(captured) == TRUE

\* Lines 181-184: captureSpeech returned; fall back when nothing was captured.
HcCapturedFallsBack(captured) == ~captured

HcCaptured(c) ==
  /\ sess[c].pc = "hc_captured"
  /\ sess' = [sess EXCEPT ![c].pc =
                IF HcCapturedFallsBack(sess[c].captured = "yes")
                THEN "mp3_entry" ELSE "done"]
  /\ UNCHANGED <<env, domVars, calls, urls, auxVars>>

\* ------------------------------------------------------------ captureSpeech
\* Line 56: the capture facility is usable.
CanCapture(e) == e.mediaDevices /\ e.getDisplayMedia /\ e.MediaRecorder

\* Lines 56-62: probe the host, start speaking (speakBrowser), then ask for
\* the display stream.
CapEntry(c) ==
  /\ sess[c].pc = "cap_entry"
  /\ IF ~CanCapture(env)
     THEN sess' = [sess EXCEPT ![c].captured = "no", ![c].pc = "hc_captured"]
     ELSE IF env.speechSynthesis
          THEN sess' = [sess EXCEPT ![c].utter = "speaking", ![c].pc = "cap_media"]
          ELSE sess' = [sess EXCEPT ![c].captured = "no", ![c].pc = "hc_captured"]
  /\ UNCHANGED <<env, domVars, calls, urls, auxVars>>

\* Bytes the recorder hands over in its dataavailable event.
Recorded == <<9>>
MimeTypes == {"audio/webm", "audio/mpeg"}

\* Variant: recorder.stop() is called right after recorder.start(), without
\* awaiting speakPromise.
CapMediaStopsAtOnce(c) ==
  /\ EventLoopFree /\ sess[c].pc = "cap_media"
  /\ \E outcome \in {"granted", "denied"}, m \in MimeTypes :
       IF outcome = "granted"
       THEN /\ sess' = [sess EXCEPT ![c].recorder = "stopping",
                           ![c].mimeType = m, ![c].onend = TRUE,
                           ![c].pc = "cap_stop"]
            /\ UNCHANGED terminal
       ELSE /\ sess' = [sess EXCEPT ![c].captured = "no", ![c].pc = "hc_captured"]
            /\ terminal' = Log(terminal, Msg("Failed to capture browser audio", 0, 0))
  /\ UNCHANGED <<env, textInput, pdfFile, progressText, progressBar, alerts,
                 audio, playbackControls, downloadLink, calls, urls, auxVars>>

\* await getDisplayMedia(...) settles.  Granted: lines 63-73 build the
\* recorder, install recorder.onstop and utter.onend, and start recording;
\* the MediaRecorder constructor or start() may throw.  Anything thrown is
\* caught at line 90: log, return false.
CapMedia(c) ==
  /\ EventLoopFree /\ sess[c].pc = "cap_media"
  /\ \E outcome \in {"granted", "denied", "recorderThrows"}, m \in MimeTypes :
       CASE outcome = "granted" ->
              /\ sess' = [sess EXCEPT ![c].recorder = "recording",
                             ![c].mimeType = m, ![c].onend = TRUE,
                             ![c].pc = "cap_speak"]
              /\ UNCHANGED terminal
         [] outcome = "denied" ->
              /\ sess' = [sess EXCEPT ![c].captured = "no", ![c].pc = "hc_captured"]
              /\ terminal' = Log(terminal, Msg("Failed to capture browser audio", 0, 0))
         [] outcome = "recorderThrows" ->
              /\ m = "audio/webm"
              /\ sess' = [sess EXCEPT ![c].captured = "no", ![c].pc = "hc_captured"]
              /\ terminal' = Log(terminal, Msg("Failed to capture browser audio", 0, 0))
  /\ UNCHANGED <<env, textInput, pdfFile, progressText, progressBar, alerts,
                 audio, playbackControls, downloadLink, calls, urls, auxVars>>

\* The host finishes speaking the utterance and fires its end event.  With
\* utter.onend installed and the call waiting on speakPromise, line 74 runs:
\* recorder.stop().  Otherwise nobody listens.
UtterEnd(c) ==
  /\ EventLoopFree /\ sess[c].utter = "speaking"
  /\ IF sess[c].onend /\ sess[c].pc = "cap_speak"
     THEN sess' = [sess EXCEPT ![c].utter = "ended", ![c].recorder = "stopping",
                     ![c].pc = "cap_stop"]
     ELSE sess' = [sess EXCEPT ![c].utter = "ended"]
  /\ UNCHANGED <<env, domVars, calls, urls, auxVars>>

\* The recorder fires dataavailable and stop; lines 76-89 publish the blob.
CapStop(c) ==
  /\ EventLoopFree /\ sess[c].pc = "cap_stop"
  /\ LET url == [id |-> urls + 1, kind |-> "local", bytes |-> Recorded]
         ext == IF sess[c].mimeType = "audio/mpeg" THEN DotMp3 ELSE DotWebm
     IN /\ urls' = urls + 1
        /\ audio' = [src |-> url, display |-> "block"]
        /\ playbackControls' = "flex"
        /\ downloadLink' = [href |-> url,
                             download |-> ReplaceExt(sess[c].outputName, DotMp3, ext),
                             display |-> "inline-block"]
  /\ progressText' = Msg("Done!", 0, 0)
  /\ terminal' = Log(terminal, Msg("Captured audio using browser speech synthesis.", 0, 0))
  /\ sess' = [sess EXCEPT ![c].recorder = "inactive", ![c].captured = "yes",
                 ![c].pc = "hc_captured"]
  /\ UNCHANGED <<env, textInput, pdfFile, progressBar, alerts, calls, auxVars>>

\* ----------------------------------------------------- textToMP3 / fetchMP3
\* new Blob(buffers): the byte arrays one after the other.
BlobOf(buffers) == Concat(buffers)

\* Variant: buffers.unshift(segment).
PushBufferFront(buffers, seg) == <<seg>> \o buffers

\* buffers.push(segment)
PushBuffer(buffers, seg) == Append(buffers, seg)

\* Variant: textToMP3 starts by withdrawing the player and the download link
\* of the previous conversion.
Mp3EntryHidesPlayer(c) ==
  /\ sess[c].pc = "mp3_entry"
  /\ LET chunks == chunkText(sess[c].text, DefaultMax)
     IN /\ sess' = [sess EXCEPT ![c].chunks = chunks, ![c].buffers = <<>>,
                       ![c].i = 0, ![c].pc = "loop"]
        /\ progressBar' = [max |-> Len(chunks), value |-> 0, display |-> "block"]
        /\ terminal' = Log(terminal, Msg("Starting synthesis of chunk(s)", Len(chunks), 0))
  /\ audio' = [src |-> NoUrl, display |-> "none"]
  /\ playbackControls' = "none"
  /\ downloadLink' = [downloadLink EXCEPT !.display = "none"]
  /\ UNCHANGED <<env, textInput, pdfFile, progressText, alerts, calls, urls, auxVars>>

\* Lines 126-133.
Mp3Entry(c) ==
  /\ sess[c].pc = "mp3_entry"
  /\ LET chunks == chunkText(sess[c].text, DefaultMax)
     IN /\ sess' = [sess EXCEPT ![c].chunks = chunks, ![c].buffers = <<>>,
                       ![c].i = 0, ![c].pc = "loop"]
        /\ progressBar' = [max |-> Len(chunks), value |-> 0, display |-> "block"]
        /\ terminal' = Log(terminal, Msg("Starting synthesis of chunk(s)", Len(chunks), 0))
  /\ UNCHANGED <<env, textInput, pdfFile, progressText, alerts,
                 audio, playbackControls, downloadLink, calls, urls, auxVars>>

\* Lines 134-139 and 113-116: the loop test; inside the loop the status,
\* the log and the bar are updated and fetch(url) is issued for chunks[i].
Loop(c) ==
  /\ sess[c].pc = "loop"
  /\ LET i == sess[c].i
         n == Len(sess[c].chunks)
     IN IF i < n
        THEN /\ progressText' = Msg("Fetching audio", i + 1, n)
             /\ terminal' = Log(terminal, Msg("Fetching audio", i + 1, n))
             /\ progressBar' = [progressBar EXCEPT !.value = i]
             /\ sess' = [sess EXCEPT ![c].pc = "fetch",
                            ![c].fetchLog = Append(@, Ev("issue", i + 1, <<>>))]
        ELSE /\ sess' = [sess EXCEPT ![c].pc = "combine"]
             /\ UNCHANGED <<progressText, terminal, progressBar>>
  /\ UNCHANGED <<env, textInput, pdfFile, alerts,
                 audio, playbackControls, downloadLink, calls, urls, auxVars>>

\* Variant: the catch logs and swallows the error; the loop goes on with the
\* next chunk.
FetchFailsSkip(c) ==
  /\ terminal' = Log(terminal, Msg("Error fetching audio", 0, 0))
  /\ sess' = [sess EXCEPT ![c].pc = "loop", ![c].i = sess[c].i + 1,
                 ![c].fetchLog = Append(@, Ev("fail", sess[c].i + 1, <<>>))]

\* Variant: the catch logs the error and the same chunk is requested again.
FetchFailsRetry(c) ==
  /\ terminal' = Log(terminal, Msg("Error fetching audio", 0, 0))
  /\ sess' = [sess EXCEPT ![c].pc = "loop",
                 ![c].fetchLog = Append(@, Ev("fail", sess[c].i + 1, <<>>))]

\* fetchMP3's catch (lines 119-122): log the error and rethrow; nothing
\* above catches it.
FetchFails(c) ==
  /\ terminal' = Log(terminal, Msg("Error fetching audio", 0, 0))
  /\ sess' = [sess EXCEPT ![c].pc = "aborted", ![c].err = "fetch",
                 ![c].fetchLog = Append(@, Ev("fail", sess[c].i + 1, <<>>))]

\* await fetch(url) settles: a response with resp.ok, a response without,
\* or a network error.
Fetch(c) ==
  /\ EventLoopFree /\ sess[c].pc = "fetch"
  /\ \E outcome \in {"ok", "status", "network"} :
       IF outcome = "ok"
       THEN sess' = [sess EXCEPT ![c].pc = "body"] /\ UNCHANGED terminal
       ELSE FetchFails(c)
  /\ UNCHANGED <<env, textInput, pdfFile, progressText, progressBar, alerts,
                 audio, playbackControls, downloadLink, calls, urls, auxVars>>

\* Variant: the bar is not advanced past the chunk just fetched.
ValueAfterStale(i) == i

\* Value of progressBar.value after chunk i (0-based) was fetched, line 140.
ValueAfter(i) == i + 1

\* await resp.arrayBuffer() settles: the body (lines 139-140: push it,
\* advance the bar, i++), or a network error.
Body(c) ==
  /\ EventLoopFree /\ sess[c].pc = "body"
  /\ \/ \E seg \in Segments :
          /\ sess' = [sess EXCEPT ![c].buffers = PushBuffer(@, seg),
                         ![c].fetchLog = Append(@, Ev("ok", sess[c].i + 1, seg)),
                         ![c].i = sess[c].i + 1, ![c].pc = "loop"]
          /\ progressBar' = [progressBar EXCEPT !.value = ValueAfter(sess[c].i)]
          /\ UNCHANGED terminal
     \/ FetchFails(c) /\ UNCHANGED progressBar
  /\ UNCHANGED <<env, textInput, pdfFile, progressText, alerts,
                 audio, playbackControls, downloadLink, calls, urls, auxVars>>

\* Variant: the download link is left pointing at the previous artifact.
CombineKeepsLink(c) ==
  /\ sess[c].pc = "combine"
  /\ LET url == [id |-> urls + 1, kind |-> "remote", bytes |-> BlobOf(sess[c].buffers)]
     IN /\ urls' = urls + 1
        /\ audio' = [src |-> url, display |-> "block"]
        /\ playbackControls' = "flex"
  /\ progressText' = Msg("Done!", 0, 0)
  /\ terminal' = Log(Log(terminal, Msg("Combining audio", 0, 0)), Msg("Finished.", 0, 0))
  /\ progressBar' = [progressBar EXCEPT !.value = progressBar.max, !.display = "none"]
  /\ sess' = [sess EXCEPT ![c].pc = "done"]
  /\ UNCHANGED <<env, textInput, pdfFile, alerts, downloadLink, calls, auxVars>>

\* Lines 142-157: publish the concatenated audio.
Combine(c) ==
  /\ sess[c].pc = "combine"
  /\ LET url == [id |-> urls + 1, kind |-> "remote", bytes |-> BlobOf(sess[c].buffers)]
     IN /\ urls' = urls + 1
        /\ audio' = [src |-> url, display |-> "block"]
        /\ playbackControls' = "flex"
        /\ downloadLink' = [href |-> url, download |-> sess[c].outputName,
                             display |-> "inline-block"]
  /\ progressText' = Msg("Done!", 0, 0)
  /\ terminal' = Log(Log(terminal, Msg("Combining audio", 0, 0)), Msg("Finished.", 0, 0))
  /\ progressBar' = [progressBar EXCEPT !.value = progressBar.max, !.display = "none"]
  /\ sess' = [sess EXCEPT ![c].pc = "done"]
  /\ UNCHANGED <<env, textInput, pdfFile, alerts, calls, auxVars>>

\* ----------------------------------------------------------- specification
Step(c) ==
  \/ HandleExtract(c) \/ HandleExtractDone(c)
  \/ XBuf(c) \/ XDoc(c) \/ XPage(c) \/ XContent(c)
  \/ HandleConvert(c) \/ HcFile(c) \/ HcJoin(c) \/ HcText(c) \/ HcCaptured(c)
  \/ CapEntry(c) \/ CapMedia(c) \/ UtterEnd(c) \/ CapStop(c)
  \/ Mp3Entry(c) \/ Loop(c) \/ Fetch(c) \/ Body(c) \/ Combine(c)

\* One handler call at a time: every call runs in slot 1.
Next == TypeText \/ SelectFile \/ Step(1)

Spec == Init /\ [][Next]_vars

\* Click on the convert button, possibly while an earlier conversion is
\* suspended at an await: the handler starts at once, in a call slot of its
\* own (lines 161-168 as in HandleConvert).
StartConvert(c) ==
  /\ EventLoopFree /\ sess[c].pc = "idle"
  /\ calls < MaxCalls
  /\ calls' = calls + 1
  /\ sess' = [sess EXCEPT ![c] = [IdleSess EXCEPT !.pc = "hc_file",
                  !.op = "convert", !.id = calls + 1, !.file = pdfFile,
                  !.text = Trim(textInput), !.outputName = OutputMp3,
                  !.before = [audio |-> audio, downloadLink |-> downloadLink,
                              playbackControls |-> playbackControls, urls |-> urls]]]
  /\ progressBar' = [progressBar EXCEPT !.display = "none", !.value = 0]
  /\ terminal' = <<>>
  /\ UNCHANGED <<env, textInput, pdfFile, progressText, alerts,
                 audio, playbackControls, downloadLink, urls, auxVars>>

\* The steps of a conversion of the text area's text.
ConvStep(c) ==
  \/ StartConvert(c)
  \/ HcFile(c) \/ HcText(c) \/ HcCaptured(c)
  \/ CapEntry(c) \/ CapMedia(c) \/ UtterEnd(c) \/ CapStop(c)
  \/ Mp3Entry(c) \/ Loop(c) \/ Fetch(c) \/ Body(c) \/ Combine(c)

\* The page with a text of two chunks in the text area, on a host that
\* offers everything.
OverlapInit ==
  /\ env = FullHost
  /\ textInput = TwoText
  /\ pdfFile = NoFile
  /\ progressText = Msg("", 0, 0)
  /\ progressBar = [max |-> 1, value |-> 0, display |-> "none"]
  /\ terminal = <<>>
  /\ alerts = <<>>
  /\ audio = [src |-> NoUrl, display |-> "none"]
  /\ playbackControls = "none"
  /\ downloadLink = [href |-> NoUrl, download |-> <<>>, display |-> "none"]
  /\ sess = [c \in Slots |-> IdleSess]
  /\ calls = 0
  /\ urls = 0
  /\ ChunkIdle /\ VoiceIdle /\ ListenIdle

\* Conversions may overlap: a second one is started while the first is
\* suspended, each in its own slot.
OverlapNext == ConvStep(1) \/ ConvStep(2)

OverlapSpec == OverlapInit /\ [][OverlapNext]_vars

\* The same page when the files at hand are scanned documents.
SelectScan ==
  /\ AllAtRest /\ calls < MaxCalls
  /\ \E f \in ScanFiles : f # pdfFile /\ pdfFile' = f
  /\ UNCHANGED <<env, textInput, progressText, progressBar, terminal, alerts,
                 audio, playbackControls, downloadLink, sess, calls, urls, auxVars>>

ScanNext == TypeText \/ SelectScan \/ Step(1)

ScanSpec == Init /\ [][ScanNext]_vars

\* A direct call of chunkText on a bounded input.
ChunkInit ==
  /\ ConvInit /\ env = FullHost
  /\ cText \in StringsUpTo(MaxLen)
  /\ cMax \in 0..MaxMax
  /\ cChunks = <<>>
  /\ cPc = "call"
  /\ VoiceIdle /\ ListenIdle

CallChunkText ==
  /\ cPc = "call"
  /\ cChunks' = chunkText(cText, cMax)
  /\ cPc' = "returned"
  /\ UNCHANGED <<env, domVars, sess, calls, urls, cText, cMax, voiceVars, listenVars>>

ChunkNext == CallChunkText

ChunkSpec == ChunkInit /\ [][ChunkNext]_vars

\* ---------------------------------------------------------- populateVoices
\* v.lang.toLowerCase() on the letters the sample tags use.
LangLower(ch) == CASE ch = "E" -> "e" [] ch = "N" -> "n" [] ch = "U" -> "u"
                   [] ch = "S" -> "s" [] OTHER -> ch

\* Variant: the tag is compared without toLowerCase().
IsEnglishExact(lang) ==
  lang # <<>> /\ Len(lang) >= 2 /\ SubSeq(lang, 1, 2) = <<"e", "n">>

\* v.lang && v.lang.toLowerCase().startsWith('en')
IsEnglish(lang) ==
  /\ lang # <<>>
  /\ Len(lang) >= 2
  /\ [j \in 1..2 |-> LangLower(lang[j])] = <<"e", "n">>

\* voices.findIndex(...); if (enIndex === -1) enIndex = 0;  (0-based)
EnIndex(voices) ==
  LET hits == {j \in 1..Len(voices) : IsEnglish(voices[j])}
  IN IF hits = {} THEN 0 ELSE SetMin(hits) - 1

\* The options appended for the voices: value i (0-based), text from v.lang.
OptionsFor(voices) == [j \in 1..Len(voices) |-> [value |-> j - 1, text |-> voices[j]]]

\* select.value = v: the first option with that value becomes the selected
\* one; with no such option nothing is selected (selectedIndex -1).
SelectedIndexFor(options, v) ==
  LET hits == {j \in 1..Len(options) : options[j].value = v}
  IN IF hits = {} THEN -1 ELSE SetMin(hits) - 1

\* populateVoices(), called at DOMContentLoaded and on voiceschanged.
PopulateVoices ==
  /\ vPc \in {"load", "changed"}
  /\ IF ~env.speechSynthesis
     THEN UNCHANGED voiceSelect
     ELSE LET options == OptionsFor(hostVoices)
          IN voiceSelect' = [options |-> options,
                             selectedIndex |-> SelectedIndexFor(options, EnIndex(hostVoices))]
  /\ vPc' = "populated"
  /\ UNCHANGED <<env, domVars, sess, calls, urls, chunkVars, hostVoices, listenVars>>

\* The host's voice list changes and voiceschanged is about to be delivered.
VoicesChanged ==
  /\ vPc = "populated"
  /\ \E v \in VoiceLists(MaxVoices) : v # hostVoices /\ hostVoices' = v
  /\ vPc' = "changed"
  /\ UNCHANGED <<env, domVars, sess, calls, urls, chunkVars, voiceSelect, listenVars>>

VoiceInit ==
  /\ ConvInit /\ env = FullHost /\ ChunkIdle
  /\ hostVoices \in VoiceLists(MaxVoices)
  /\ voiceSelect = NoSelect
  /\ vPc = "load"
  /\ ListenIdle

VoiceNext == PopulateVoices \/ VoicesChanged

VoiceSpec == VoiceInit /\ [][VoiceNext]_vars

\* ------------------------------------------------- listenToText and friends
\* speechSynthesis.cancel(): every utterance speaking or queued is dropped.
\* The host may still deliver the end event of a dropped utterance later
\* (some engines do, some fire only an error event).
Cancel(utts) ==
  [j \in 1..Len(utts) |-> IF utts[j] = "active" THEN "cancelled" ELSE utts[j]]

\* Click on #listenBtn (lines 280-302).
ListenToText ==
  /\ Len(utterances) + Len(alerts) < MaxListens
  /\ IF ~env.speechSynthesis
     THEN /\ alerts' = Append(alerts, "Browser speech synthesis not supported.")
          /\ UNCHANGED listenVars
     ELSE IF Trim(textInput) = <<>>
     THEN /\ alerts' = Append(alerts, "Please extract a PDF or enter some text.")
          /\ UNCHANGED listenVars
     ELSE LET queue == IF currentUtterance # 0 THEN Cancel(utterances)
                       ELSE utterances
          IN /\ utterances' = Append(queue, "active")
             /\ currentUtterance' = Len(queue) + 1
             /\ listenControls' = "flex"
             /\ UNCHANGED <<alerts, synthPaused>>
  /\ UNCHANGED <<env, textInput, pdfFile, progressText, progressBar, terminal,
                 audio, playbackControls, downloadLink, sess, calls, urls,
                 chunkVars, voiceVars>>

\* Click on #pauseListenBtn (lines 304-306).
PauseListen ==
  /\ ~synthPaused
  /\ synthPaused' = (currentUtterance # 0)
  /\ UNCHANGED <<env, domVars, sess, calls, urls, chunkVars, voiceVars,
                 currentUtterance, listenControls, utterances>>

\* Click on #resumeListenBtn (lines 307-309).
ResumeListen ==
  /\ synthPaused
  /\ synthPaused' = (currentUtterance = 0)
  /\ UNCHANGED <<env, domVars, sess, calls, urls, chunkVars, voiceVars,
                 currentUtterance, listenControls, utterances>>

\* Click on #stopListenBtn (lines 310-316).
StopListen ==
  /\ IF currentUtterance # 0
     THEN /\ utterances' = Cancel(utterances)
          /\ currentUtterance' = 0
          /\ listenControls' = "none"
     ELSE UNCHANGED <<utterances, currentUtterance, listenControls>>
  /\ UNCHANGED <<env, domVars, sess, calls, urls, chunkVars, voiceVars, synthPaused>>

\* The end event of an utterance u is delivered and its onend (lines
\* 296-299) runs: of the utterance being spoken (the oldest one still
\* active, when speech is not paused) or of one that was dropped by cancel().
UtterOnEnd ==
  /\ \E u \in 1..Len(utterances) :
       /\ \/ /\ utterances[u] = "active" /\ ~synthPaused
             /\ \A j \in 1..(u - 1) : utterances[j] # "active"
          \/ utterances[u] = "cancelled"
       /\ utterances' = [utterances EXCEPT ![u] = "over"]
  /\ listenControls' = "none"
  /\ currentUtterance' = 0
  /\ UNCHANGED <<env, domVars, sess, calls, urls, chunkVars, voiceVars, synthPaused>>

ListenNext ==
  \/ TypeText
  \/ ListenToText \/ PauseListen \/ ResumeListen \/ StopListen
  \/ UtterOnEnd

ListenSpec == Init /\ [][ListenNext]_vars

\* ==================================================== properties: chunkText
NonWS(s) == SelectSeq(s, LAMBDA ch : ch \notin WS)

\* C1: concatenating the chunks of chunkText(text, max) in output order gives
\* exactly the non-whitespace characters of text, in their original order.
C1_ChunksReproduceText ==
  cPc = "returned" => NonWS(Concat(cChunks)) = NonWS(cText)

\* The sentence units as the claim C2 describes them: a unit ends with a
\* terminator ('.', '!', '?' or newline; a run of terminators closes one
\* unit), and what follows the last terminator is a unit too.
UnitEnds(t) ==
  {q \in 1..Len(t) : q = Len(t) \/ (t[q] \in Term /\ t[q + 1] \notin Term)}
UnitLen(t, q) == q - SetMax({e \in UnitEnds(t) : e < q} \cup {0})
NoUnitLongerThan(t, max) == \A q \in UnitEnds(t) : UnitLen(t, q) <= max

\* C2: for max >= 1 and a text none of whose sentence units (ended by '.',
\* '!', '?' or newline) is longer than max, every chunk has length <= max.
C2_ChunksWithinMax ==
  (cPc = "returned" /\ cMax >= 1 /\ NoUnitLongerThan(cText, cMax))
    => \A k \in 1..Len(cChunks) : Len(cChunks[k]) <= cMax

C15_SplitsAtEveryTerminator ==
  (cPc = "returned" /\ cMax >= 1) =>
    /\ \A k \in 1..Len(cChunks) :
          Len(cChunks[k]) > cMax => UnitEnds(cChunks[k]) = {Len(cChunks[k])}
    /\ (/\ Len(cText) > cMax
        /\ Cardinality({q \in 1..Len(cText) : cText[q] = NL}) = 1
        /\ cText[1] # NL /\ cText[Len(cText)] # NL
        /\ \A q \in 1..Len(cText) : cText[q] \notin Punct)
       => \A k \in 1..Len(cChunks) : \A q \in 1..Len(cChunks[k]) :
             cChunks[k][q] # NL

\* C20: for max >= 1 every chunk chunkText returns is a non-empty string.
C20_ChunksNonEmpty ==
  (cPc = "returned" /\ cMax >= 1) =>
    \A k \in 1..Len(cChunks) : cChunks[k] # <<>>

\* =================================================== properties: conversion
RemotePcs == {"mp3_entry", "loop", "fetch", "body", "combine"}
LogOf(c) == sess[c].fetchLog
Issued(c) == {j \in 1..Len(LogOf(c)) : LogOf(c)[j].ev = "issue"}
Settled(c) == {j \in 1..Len(LogOf(c)) : LogOf(c)[j].ev \in {"ok", "fail"}}
Failed(c) == \E j \in 1..Len(LogOf(c)) : LogOf(c)[j].ev = "fail"
FailedAt(c, k) == \E j \in 1..Len(LogOf(c)) : LogOf(c)[j] = Ev("fail", k, <<>>)
Exposed == [audio |-> audio, downloadLink |-> downloadLink,
            playbackControls |-> playbackControls, urls |-> urls]

\* C4: when the fetch for chunk k of n fails, the call is over with that
\* error, no request was issued for a later chunk, no object URL was created
\* and nothing new is exposed, the status line is not 'Done!', and the
\* progress bar stands at k-1 of n.
C4_FetchFailureAborts ==
  \A c \in Slots : \A k \in 1..(Len(sess[c].chunks) + 1) :
    FailedAt(c, k) =>
      /\ sess[c].pc = "aborted" /\ sess[c].err = "fetch"
      /\ \A j \in 1..Len(LogOf(c)) : LogOf(c)[j].k <= k
      /\ Cardinality({j \in Issued(c) : LogOf(c)[j].k = k}) = 1
      /\ Exposed = sess[c].before
      /\ progressText = Msg("Fetching audio", k, Len(sess[c].chunks))
      /\ progressBar.value = k - 1
      /\ progressBar.max = Len(sess[c].chunks)

\* The second of three fetches failed, after an earlier conversion had
\* exposed an artifact.
C4_Witness ==
  /\ FailedAt(1, 2) /\ Len(sess[1].chunks) = 3
  /\ audio.src.id = 1

\* The body delivered for chunk k in call c.
SegmentOf(c, k) ==
  LogOf(c)[CHOOSE j \in 1..Len(LogOf(c)) :
             LogOf(c)[j].ev = "ok" /\ LogOf(c)[j].k = k].seg

RemoteDone(c) ==
  sess[c].op = "convert" /\ sess[c].pc = "done" /\ sess[c].captured = "no"

\* C5: when the remote path completes, the exposed audio is S_1 ++ ... ++ S_n,
\* S_k being the body delivered for chunk k: one per chunk, in chunk order.
C5_ArtifactIsOrderedConcat ==
  \A c \in Slots :
    RemoteDone(c) =>
      LET n == Len(sess[c].chunks)
      IN /\ \A k \in 1..n :
              Cardinality({j \in 1..Len(LogOf(c)) :
                 LogOf(c)[j].ev = "ok" /\ LogOf(c)[j].k = k}) = 1
         /\ audio.src.kind = "remote"
         /\ audio.src.bytes = Concat([k \in 1..n |-> SegmentOf(c, k)])
         /\ downloadLink.href = audio.src

\* Three chunks answered with bodies that are not all the same.
C5_Witness ==
  /\ RemoteDone(1) /\ Len(sess[1].chunks) = 3
  /\ audio.src.bytes = <<2, 3, 1, 2, 3>>

\* C6: requests go out for chunk 1, 2, ... in order, each once; a request
\* is issued only when every earlier one has delivered its body; a failure
\* is the last thing on the network; at most one request is in flight.
C6_SequentialFetches ==
  \A c \in Slots :
    LET log == LogOf(c)
    IN /\ \A j \in 1..Len(log) :
            IF j % 2 = 1
            THEN log[j].ev = "issue" /\ log[j].k = (j + 1) \div 2
            ELSE /\ log[j].ev \in {"ok", "fail"} /\ log[j].k = j \div 2
                 /\ (log[j].ev = "fail" => j = Len(log))
       /\ Cardinality(Issued(c)) - Cardinality(Settled(c)) \in {0, 1}
       /\ Cardinality(Issued(c)) <= Len(sess[c].chunks)

\* The third request is in flight after two bodies were delivered.
C6_Witness ==
  /\ sess[1].pc = "fetch" /\ Len(LogOf(1)) = 5
  /\ LogOf(1)[5] = Ev("issue", 3, <<>>)

LocalUnavailable == ~(CanCapture(env) /\ env.speechSynthesis)

\* C7: on a host without the local-voice facility captureSpeech never
\* captures, handleConvert goes on to the remote path, and a call that ends
\* without a failed fetch has exposed a remote artifact with status 'Done!'.
C7_UnavailableFallsBack ==
  \A c \in Slots :
    (LocalUnavailable /\ sess[c].op = "convert") =>
      /\ sess[c].captured # "yes"
      /\ sess[c].pc \notin {"cap_media", "cap_speak", "cap_stop"}
      /\ (sess[c].pc = "done" /\ sess[c].text # <<>>) =>
            /\ sess[c].captured = "no"
            /\ Cardinality(Settled(c)) = Len(sess[c].chunks)
            /\ progressText = Msg("Done!", 0, 0)
            /\ audio.src.kind = "remote" /\ audio.src.id = sess[c].before.urls + 1
            /\ audio.display = "block"
            /\ downloadLink.href = audio.src
            /\ downloadLink.display = "inline-block"

\* No MediaRecorder on the host, and the conversion completed remotely.
C7_Witness ==
  /\ ~env.MediaRecorder /\ RemoteDone(1) /\ Len(sess[1].chunks) = 3
  /\ progressText = Msg("Done!", 0, 0) /\ audio.src.kind = "remote"

\* C8: no request is issued before captureSpeech has returned false, none
\* at all once it returned true, and one call creates at most one artifact.
C8_LocalFirstChosenOnce ==
  \A c \in Slots :
    /\ (LogOf(c) # <<>> \/ sess[c].pc \in RemotePcs) => sess[c].captured = "no"
    /\ sess[c].captured = "yes" =>
          /\ sess[c].pc \in {"hc_captured", "done"}
          /\ audio.src.kind = "local"
    /\ sess[c].op = "convert" => urls <= sess[c].before.urls + 1

\* The local capture succeeded and the call is over.
C8_Witness ==
  sess[1].captured = "yes" /\ sess[1].pc = "done" /\ audio.src.kind = "local"

\* C9: while a call is in the remote path progressBar.value never
\* decreases and never exceeds progressBar.max, and when the body of a
\* chunk has arrived it equals the number of chunks fetched so far.
C9_ProgressMonotone ==
  [][\A c \in Slots :
       (sess[c].pc \in RemotePcs /\ sess'[c].id = sess[c].id) =>
         /\ progressBar'.value >= progressBar.value
         /\ progressBar'.value <= progressBar'.max
         /\ progressBar'.max = Len(sess'[c].chunks)
         /\ (sess[c].pc = "body" /\ sess'[c].pc = "loop") =>
               /\ progressBar'.value = sess'[c].i
               /\ progressBar'.value =
                    Cardinality({j \in 1..Len(sess'[c].fetchLog) :
                                   sess'[c].fetchLog[j].ev = "ok"})]_vars

\* Two of three chunks are fetched and the bar shows 2 of 3.
C9_Witness ==
  /\ sess[1].pc = "loop" /\ sess[1].i = 2
  /\ progressBar.value = 2 /\ progressBar.max = 3

\* Lines of the page that tell the user something went wrong.
ErrorLines == {"Error fetching audio", "Failed to extract text from PDF."}
ErrorVisible ==
  \/ \E j \in 1..Len(terminal) : terminal[j].k \in ErrorLines
  \/ progressText.k \in ErrorLines
  \/ \E j \in 1..Len(alerts) : alerts[j] \in ErrorLines

\* C10: a handler call that ended in an exception (failed extraction or
\* failed fetch) has left an error message in the log, the status line or
\* an alert.
C10_FatalErrorsSurfaced ==
  \A c \in Slots : sess[c].pc = "aborted" => ErrorVisible

\* C19: from the start of the remote path up to and after an abort on a
\* failed fetch, the audio player's source and visibility, the download
\* link's target, file name and visibility, and the playback controls are
\* what they were when the conversion started.
C19_AbortLeavesArtifactState ==
  \A c \in Slots :
    (sess[c].pc \in {"mp3_entry", "loop", "fetch", "body"}
       \/ (sess[c].pc = "aborted" /\ sess[c].err = "fetch")) =>
      /\ audio.src = sess[c].before.audio.src
      /\ audio.display = sess[c].before.audio.display
      /\ downloadLink.href = sess[c].before.downloadLink.href
      /\ downloadLink.download = sess[c].before.downloadLink.download
      /\ downloadLink.display = sess[c].before.downloadLink.display
      /\ playbackControls = sess[c].before.playbackControls

\* A conversion aborted on a failed fetch while the page still shows the
\* captured artifact of the conversion before it.
C19_Witness ==
  /\ sess[1].pc = "aborted" /\ sess[1].err = "fetch"
  /\ audio.src.kind = "local" /\ audio.display = "block"
  /\ downloadLink.href = audio.src /\ downloadLink.display = "inline-block"

\* ================================================ properties: local capture
\* C16: recorder.stop() is called only once the utterance has fired its end
\* event, and the captured artifact is published only by the step that
\* receives the recorder's stop event after that call.
C16_StopOnlyAfterSpeechEnd ==
  [][/\ \A c \in Slots :
          /\ sess'[c].recorder \in {"stopping", "inactive"} =>
                sess'[c].utter = "ended"
          /\ sess'[c].captured = "yes" => sess'[c].recorder = "inactive"
     /\ (audio'.src # audio.src /\ audio'.src.kind = "local") =>
          \E c \in Slots :
            /\ sess[c].pc = "cap_stop" /\ sess[c].utter = "ended"
            /\ sess[c].recorder = "stopping" /\ sess'[c].recorder = "inactive"]_vars

\* stop() was called after the utterance ended; the stop event is awaited.
C16_Witness ==
  /\ sess[1].pc = "cap_stop" /\ sess[1].recorder = "stopping"
  /\ sess[1].utter = "ended"

\* C17: once the utterance has ended, captureSpeech is never left waiting:
\* a conversion whose utterance has ended is over or can take a further
\* step (so it goes on to return instead of waiting forever).
C17_CaptureReturnsAfterSpeechEnd ==
  \A c \in Slots :
    (sess[c].op = "convert" /\ sess[c].utter = "ended"
       /\ sess[c].pc \notin RestPcs) => ENABLED Step(c)

\* C18: at the step that starts the recorder the utterance has not yet
\* begun to be spoken, so the recording covers the speech from its start.
C18_RecorderStartsBeforeSpeech ==
  [][\A c \in Slots :
       (sess[c].recorder = "none" /\ sess'[c].recorder = "recording") =>
         sess[c].utter = "none"]_vars

\* =================================================== properties: extraction
ExtractPcs == {"x_buf", "x_doc", "x_page", "x_content"}

\* C11: when pdf.js rejects for the document or for a page, the call is over
\* with that error: no step of the extraction has written to the textarea
\* (so the pages already parsed never get there), and in handleConvert no
\* utterance was started, captureSpeech did not return, and no chunk was
\* made or requested.
C11_ExtractionFailureYieldsNoText ==
  [][\A c \in Slots :
       /\ sess'[c].err = "extract" =>
             /\ sess'[c].pc = "aborted"
             /\ sess'[c].utter = "none" /\ sess'[c].recorder = "none"
             /\ sess'[c].captured = "pending"
             /\ sess'[c].chunks = <<>> /\ sess'[c].fetchLog = <<>>
             /\ sess'[c].text = sess[c].text
             /\ urls' = urls /\ audio' = audio /\ downloadLink' = downloadLink
       /\ (sess[c].pc \in ExtractPcs /\ sess'[c].pc # "x_ret") =>
             textInput' = textInput
       /\ (sess[c].pc = "x_ret" /\ sess[c].err = "none") =>
             sess[c].pageNum = Len(sess[c].file.pages) + 1]_vars

\* Page 2 was refused after page 1 had been read, and the textarea still
\* holds what the user had typed.
C11_Witness ==
  /\ sess[1].pc = "aborted" /\ sess[1].err = "extract"
  /\ sess[1].op = "extract" /\ sess[1].pageNum = 2 /\ sess[1].xtext # <<>>
  /\ textInput = ShortText

\* The items of one page with a single space between neighbours.
SpacedItems(items) ==
  Concat([j \in 1..Len(items) |->
            IF j < Len(items) THEN items[j] \o <<" ">> ELSE items[j]])
\* The page texts with a newline between consecutive pages.
PagesSeparated(pages) ==
  Concat([p \in 1..Len(pages) |->
            IF p < Len(pages) THEN SpacedItems(pages[p]) \o <<NL>>
            ELSE SpacedItems(pages[p])])
\* The page texts, each followed by a newline.
PagesTerminated(pages) ==
  Concat([p \in 1..Len(pages) |-> SpacedItems(pages[p]) \o <<NL>>])

\* C12 as stated: the text extractTextFromPDF returns is the page texts
\* (items joined by one space) with a newline between consecutive pages.
C12_PagesJoinedByNewline ==
  \A c \in Slots :
    (sess[c].pc = "x_ret" /\ sess[c].err = "none") =>
      sess[c].xtext = PagesSeparated(sess[c].file.pages)

\* C12 amended: getPage is asked for page 1, then 2, ... up to N, the next
\* page only after the content of the previous one has arrived, and the
\* text returned is the page texts (items joined by one space), each one
\* followed by a newline, the last page included.
C12_PagesInOrderNewlineTerminated ==
  [][\A c \in Slots :
       /\ (sess'[c].pc = "x_page" /\ sess[c].pc # "x_page") =>
             /\ sess[c].pc \in {"x_doc", "x_content"}
             /\ sess'[c].pageNum = IF sess[c].pc = "x_doc" THEN 1
                                   ELSE sess[c].pageNum + 1
             /\ sess'[c].pageNum <= Len(sess'[c].file.pages)
       /\ (sess[c].pc = "x_page" /\ sess'[c].pc = "x_content") =>
             sess'[c].pageNum = sess[c].pageNum
       /\ (sess'[c].pc = "x_ret" /\ sess'[c].err = "none") =>
             /\ sess'[c].pageNum = Len(sess'[c].file.pages) + 1
             /\ sess'[c].xtext = PagesTerminated(sess'[c].file.pages)]_vars

\* A two-page document was read to the end.
C12_Witness ==
  /\ sess[1].pc = "x_ret" /\ Len(sess[1].file.pages) = 2
  /\ sess[1].xtext = ShortText \o <<NL, "a", " ", "b", "?", NL>>

\* ============================================== properties: voice selector
\* The tag begins with 'en' in any letter case.
BeginsWithEn(lang) ==
  Len(lang) >= 2 /\ lang[1] \in {"e", "E"} /\ lang[2] \in {"n", "N"}
EnglishVoices == {j \in 1..Len(hostVoices) : BeginsWithEn(hostVoices[j])}

\* C14 as stated: after populateVoices the selected index is that of the
\* first voice whose tag begins with 'en', and 0 when there is no such voice.
C14_SelectsFirstEnglishOrZero ==
  vPc = "populated" =>
    voiceSelect.selectedIndex =
      IF EnglishVoices # {} THEN SetMin(EnglishVoices) - 1 ELSE 0

\* C14 amended: after populateVoices the selector has one option per voice;
\* the selected index is that of the first voice whose tag begins with 'en',
\* 0 when the list has voices but no such voice, and -1 (nothing selected)
\* when the list is empty.
C14_SelectsFirstEnglishIfAny ==
  vPc = "populated" =>
    /\ Len(voiceSelect.options) = Len(hostVoices)
    /\ voiceSelect.selectedIndex =
         IF EnglishVoices # {} THEN SetMin(EnglishVoices) - 1
         ELSE IF hostVoices # <<>> THEN 0 ELSE -1

\* The first English voice is the second of three and its tag is upper case.
C14_Witness ==
  /\ vPc = "populated" /\ Len(hostVoices) = 3
  /\ hostVoices[1] = <<"f", "r">> /\ hostVoices[2] = <<"E", "N", "-", "g", "b">>
  /\ voiceSelect.selectedIndex = 1

\* ================================================ properties: handleConvert
\* Positions inside captureSpeech and textToMP3.
StrategyPcs == {"cap_entry", "cap_media", "cap_speak", "cap_stop",
                "hc_captured"} \cup RemotePcs

\* C21: a conversion that has entered captureSpeech or textToMP3 converts a
\* text with at least one non-whitespace character, and a conversion whose
\* text has none has alerted the user and is over.
C21_StrategyOnlyOnRealText ==
  \A c \in Slots :
    sess[c].op = "convert" =>
      /\ (sess[c].pc \in StrategyPcs \/ sess[c].captured # "pending"
            \/ sess[c].utter # "none" \/ sess[c].chunks # <<>>)
           => NonWS(sess[c].text) # <<>>
      /\ (sess[c].pc = "done" /\ NonWS(sess[c].text) = <<>>)
           => /\ alerts # <<>>
              /\ alerts[Len(alerts)] = "Please upload a PDF or enter some text."

\* C22: while a conversion is in the remote path, the utterance its local
\* attempt started (if any) is not speaking any more.
C22_NoSpeechDuringRemote ==
  \A c \in Slots :
    (sess[c].op = "convert" /\ sess[c].pc \in RemotePcs) =>
      sess[c].utter # "speaking"

\* ============================================== properties: listen controls
ListenActive == \E u \in 1..Len(utterances) : utterances[u] = "active"

\* C23: currentUtterance is non-null, and #listenControls is shown, exactly
\* when an utterance started by listenToText is still speaking or queued,
\* and currentUtterance then is such an utterance.
C23_ControlsTrackActiveUtterance ==
  /\ (currentUtterance # 0) <=> ListenActive
  /\ (listenControls = "flex") <=> ListenActive
  /\ currentUtterance # 0 => utterances[currentUtterance] = "active"

\* ======================================== properties: overlapping conversions
\* C24: the download link always points at the artifact the player plays,
\* and every artifact published is either the bodies delivered to one
\* single conversion, one per chunk of that conversion in chunk order, or
\* the recording of one single capture.
C24_ArtifactOfOneConversion ==
  [][/\ downloadLink'.href = audio'.src
     /\ audio'.src # audio.src =>
          \E c \in Slots :
            \/ /\ audio'.src.kind = "remote" /\ sess[c].pc = "combine"
               /\ \A k \in 1..Len(sess[c].chunks) :
                     Cardinality({j \in 1..Len(LogOf(c)) :
                        LogOf(c)[j].ev = "ok" /\ LogOf(c)[j].k = k}) = 1
               /\ audio'.src.bytes =
                     Concat([k \in 1..Len(sess[c].chunks) |-> SegmentOf(c, k)])
            \/ /\ audio'.src.kind = "local" /\ sess[c].pc = "cap_stop"
               /\ audio'.src.bytes = Recorded]_vars

\* The conversion started second has published its artifact while the
\* first, with one body fetched, is still waiting for its next one.
C24_Witness ==
  /\ sess[2].pc = "done" /\ sess[2].id = 2 /\ sess[1].id = 1
  /\ sess[1].pc = "fetch" /\ Len(sess[1].buffers) = 1
  /\ audio.src.kind = "remote" /\ Len(sess[2].chunks) = 2
  /\ audio.src.bytes # Concat(sess[1].buffers \o sess[1].buffers)

====
